---- MODULE Spec2Model ----
(***************************************************************************)
(* Cross-script query expansion and variant-merging search of the          *)
(* dictionary search server (transliteration.py, app/api/search_client.py).*)
(*                                                                         *)
(* A Python string is a sequence of characters; every character is named   *)
(* by an ASCII label: ASCII characters by themselves, Latin letters with   *)
(* diacritics as "ae" (U+00E6), "a_uml" (U+00E4), "c_car" (U+010D),         *)
(* "g_brv" (U+011F), "k_acu" (U+1E31), "p_acu" (U+1E55), "s_car" (U+0161),  *)
(* "t_dot" (U+1E6D), "u_mac" (U+016B), "z_car" (U+017E), "s_long" (U+1E9C), *)
(* Cyrillic letters as "cy_<name>" ("cy_hard" is the hard sign U+044A,      *)
(* "cy_schwa" is U+04D9).  The upper-case form of a letter is the label in  *)
(* upper case.                                                             *)
(***************************************************************************)
EXTENDS Integers, Sequences, FiniteSets, TLC

\* ------------------------------------------------------------------------
\* Mapping tables (transliteration.py:17-65)
\* ------------------------------------------------------------------------

LATIN_TO_CYRILLIC ==
    <<"a">> :> <<"cy_a">> @@ <<"ae">> :> <<"ae">> @@
    <<"a_uml">> :> <<"ae">> @@ <<"b">> :> <<"cy_b">> @@
    <<"c">> :> <<"cy_c">> @@ <<"c_car">> :> <<"cy_ch">> @@
    <<"d">> :> <<"cy_d">> @@ <<"e">> :> <<"cy_e">> @@
    <<"f">> :> <<"cy_f">> @@ <<"g">> :> <<"cy_g">> @@
    <<"g_brv">> :> <<"cy_g", "cy_hard">> @@ <<"h">> :> <<"cy_h">> @@
    <<"i">> :> <<"cy_i">> @@ <<"j">> :> <<"cy_j">> @@
    <<"k">> :> <<"cy_k">> @@ <<"k_acu">> :> <<"cy_k", "cy_hard">> @@
    <<"l">> :> <<"cy_l">> @@ <<"m">> :> <<"cy_m">> @@
    <<"n">> :> <<"cy_n">> @@ <<"o">> :> <<"cy_o">> @@
    <<"p">> :> <<"cy_p">> @@ <<"p_acu">> :> <<"cy_p", "cy_hard">> @@
    <<"q">> :> <<"cy_h", "cy_hard">> @@ <<"r">> :> <<"cy_r">> @@
    <<"s">> :> <<"cy_s">> @@ <<"s_car">> :> <<"cy_sh">> @@
    <<"t">> :> <<"cy_t">> @@ <<"t_dot">> :> <<"cy_t", "cy_hard">> @@
    <<"u">> :> <<"cy_u">> @@ <<"u_mac">> :> <<"cy_u">> @@
    <<"v">> :> <<"cy_v">> @@ <<"w">> :> <<"cy_u">> @@
    <<"x">> :> <<"cy_h">> @@ <<"y">> :> <<"cy_y">> @@
    <<"z">> :> <<"cy_z">> @@ <<"z_car">> :> <<"cy_zh">> @@
    <<"cy_schwa">> :> <<"cy_u">> @@ <<"k", "'">> :> <<"cy_k", "cy_hard">> @@
    <<"p", "'">> :> <<"cy_p", "cy_hard">> @@
    <<"t", "'">> :> <<"cy_t", "cy_hard">> @@
    <<"c", "'">> :> <<"cy_c", "cy_hard">> @@
    <<"k", "s_long">> :> <<"cy_h", "cy_hard", "cy_u">> @@
    <<"g", "s_long">> :> <<"cy_g", "cy_hard", "cy_u">> @@
    <<"k", "'", "s_long">> :> <<"cy_k", "cy_hard", "cy_u">> @@
    <<"d", "z">> :> <<"cy_d", "cy_z">> @@
    <<"d", "z", "h">> :> <<"cy_d", "cy_zh">>

CYRILLIC_TO_LATIN ==
    <<"cy_a">> :> <<"a">> @@ <<"ae">> :> <<"ae">> @@ <<"cy_b">> :> <<"b">> @@
    <<"cy_v">> :> <<"v">> @@ <<"cy_g">> :> <<"g">> @@
    <<"cy_g", "cy_hard">> :> <<"g_brv">> @@ <<"cy_d">> :> <<"d">> @@
    <<"cy_d", "cy_zh">> :> <<"d", "z", "h">> @@
    <<"cy_d", "cy_z">> :> <<"d", "z">> @@ <<"cy_e">> :> <<"e">> @@
    <<"cy_yo">> :> <<"j", "o">> @@ <<"cy_zh">> :> <<"z_car">> @@
    <<"cy_z">> :> <<"z">> @@ <<"cy_i">> :> <<"i">> @@
    <<"cy_j">> :> <<"j">> @@ <<"cy_k">> :> <<"k">> @@
    <<"cy_k", "cy_hard">> :> <<"k", "'">> @@ <<"cy_l">> :> <<"l">> @@
    <<"cy_m">> :> <<"m">> @@ <<"cy_n">> :> <<"n">> @@
    <<"cy_o">> :> <<"o">> @@ <<"cy_p">> :> <<"p">> @@
    <<"cy_p", "cy_hard">> :> <<"p", "'">> @@ <<"cy_r">> :> <<"r">> @@
    <<"cy_s">> :> <<"s">> @@ <<"cy_t">> :> <<"t">> @@
    <<"cy_t", "cy_hard">> :> <<"t", "'">> @@ <<"cy_u">> :> <<"u">> @@
    <<"cy_f">> :> <<"f">> @@ <<"cy_h">> :> <<"h">> @@
    <<"cy_h", "cy_hard">> :> <<"q">> @@ <<"cy_c">> :> <<"c">> @@
    <<"cy_c", "cy_hard">> :> <<"c", "'">> @@ <<"cy_ch">> :> <<"c_car">> @@
    <<"cy_sh">> :> <<"s_car">> @@ <<"cy_shch">> :> <<"s_car", "c_car">> @@
    <<"cy_hard">> :> <<>> @@ <<"cy_y">> :> <<"y">> @@
    <<"cy_soft">> :> <<>> @@ <<"cy_e2">> :> <<"e">> @@
    <<"cy_yu">> :> <<"j", "u">> @@ <<"cy_ya">> :> <<"j", "a">> @@
    <<"cy_h", "cy_hard", "cy_u">> :> <<"k", "s_long">> @@
    <<"cy_g", "cy_hard", "cy_u">> :> <<"g", "s_long">> @@
    <<"cy_k", "cy_hard", "cy_u">> :> <<"k", "'", "s_long">>

TAERQUS_CYR == <<"cy_t", "ae", "cy_r", "cy_h", "cy_hard", "cy_u", "cy_s">>

SPECIAL_CASE_MAPPING ==
    <<"t", "ae", "r", "q", "u_mac", "s">> :> [list |-> FALSE, val |-> TAERQUS_CYR] @@
    <<"t", "ae", "r", "q", "o", "s">> :> [list |-> FALSE, val |-> TAERQUS_CYR] @@
    <<"t", "a_uml", "r", "q", "u_mac", "s">> :> [list |-> FALSE, val |-> TAERQUS_CYR] @@
    <<"t", "a_uml", "r", "q", "o", "s">> :> [list |-> FALSE, val |-> TAERQUS_CYR] @@
    TAERQUS_CYR :> [list |-> TRUE,
                    val |-> << <<"t", "ae", "r", "q", "u_mac", "s">>,
                               <<"t", "ae", "r", "q", "o", "s">>,
                               <<"t", "a_uml", "r", "q", "u_mac", "s">>,
                               <<"t", "a_uml", "r", "q", "o", "s">> >>]

COMMON_VARIANTS ==
    <<"ae">> :> << <<"a_uml">>, <<"a">>, <<"e">> >> @@
    <<"a_uml">> :> << <<"ae">>, <<"a">>, <<"e">> >> @@
    <<"u_mac">> :> << <<"u">> >> @@ <<"cy_schwa">> :> << <<"u">>, <<"y">> >> @@
    <<"s_long">> :> << <<"w">> >> @@ <<"g_brv">> :> << <<"g", "h">> >> @@
    <<"s_car">> :> << <<"s", "h">> >> @@ <<"z_car">> :> << <<"z", "h">> >> @@
    <<"c_car">> :> << <<"c", "h">> >>

CasePairs ==
    {<<"A", "a">>, <<"B", "b">>, <<"C", "c">>, <<"D", "d">>, <<"E", "e">>,
     <<"F", "f">>, <<"G", "g">>, <<"H", "h">>, <<"I", "i">>, <<"J", "j">>,
     <<"K", "k">>, <<"L", "l">>, <<"M", "m">>, <<"N", "n">>, <<"O", "o">>,
     <<"P", "p">>, <<"Q", "q">>, <<"R", "r">>, <<"S", "s">>, <<"T", "t">>,
     <<"U", "u">>, <<"V", "v">>, <<"W", "w">>, <<"X", "x">>, <<"Y", "y">>,
     <<"Z", "z">>, <<"A_UML", "a_uml">>, <<"AE", "ae">>,
     <<"C_CAR", "c_car">>, <<"G_BRV", "g_brv">>, <<"S_CAR", "s_car">>,
     <<"U_MAC", "u_mac">>, <<"Z_CAR", "z_car">>, <<"CY_A", "cy_a">>,
     <<"CY_B", "cy_b">>, <<"CY_V", "cy_v">>, <<"CY_G", "cy_g">>,
     <<"CY_D", "cy_d">>, <<"CY_E", "cy_e">>, <<"CY_ZH", "cy_zh">>,
     <<"CY_Z", "cy_z">>, <<"CY_I", "cy_i">>, <<"CY_J", "cy_j">>,
     <<"CY_K", "cy_k">>, <<"CY_L", "cy_l">>, <<"CY_M", "cy_m">>,
     <<"CY_N", "cy_n">>, <<"CY_O", "cy_o">>, <<"CY_P", "cy_p">>,
     <<"CY_R", "cy_r">>, <<"CY_S", "cy_s">>, <<"CY_T", "cy_t">>,
     <<"CY_U", "cy_u">>, <<"CY_F", "cy_f">>, <<"CY_H", "cy_h">>,
     <<"CY_C", "cy_c">>, <<"CY_CH", "cy_ch">>, <<"CY_SH", "cy_sh">>,
     <<"CY_SHCH", "cy_shch">>, <<"CY_HARD", "cy_hard">>, <<"CY_Y", "cy_y">>,
     <<"CY_SOFT", "cy_soft">>, <<"CY_E2", "cy_e2">>, <<"CY_YU", "cy_yu">>,
     <<"CY_YA", "cy_ya">>, <<"CY_YO", "cy_yo">>, <<"CY_SCHWA", "cy_schwa">>,
     <<"K_ACU", "k_acu">>, <<"P_ACU", "p_acu">>, <<"T_DOT", "t_dot">>,
     <<"FW_A", "fw_a">>}

\* ------------------------------------------------------------------------
\* Python string primitives
\* ------------------------------------------------------------------------

\* str.lower() of one character
ToLower == [c \in {p[1] : p \in CasePairs} |-> (CHOOSE p \in CasePairs : p[1] = c)[2]]

\* str.upper() of one character
ToUpper == [c \in {p[2] : p \in CasePairs} |-> (CHOOSE p \in CasePairs : p[2] = c)[1]]

Lower(c) == IF c \in DOMAIN ToLower THEN ToLower[c] ELSE c

Upper(c) == IF c \in DOMAIN ToUpper THEN ToUpper[c] ELSE c

\* str.isupper() of a one-character string
IsUpper(c) == c \in DOMAIN ToLower

LowerStr(s) == [k \in 1..Len(s) |-> Lower(s[k])]

UpperStr(s) == [k \in 1..Len(s) |-> Upper(s[k])]

\* text[a:b] for 0 <= a <= b (bounds are clipped to the string as in Python)
Slice(text, a, b) ==
    SubSeq(text, a + 1, IF b < Len(text) THEN b ELSE Len(text))

\* ------------------------------------------------------------------------
\* Bounds of the words that are transliterated
\* ------------------------------------------------------------------------

MaxLen == 3

Alphabet ==
    {"a", "ae", "k", "'", "s_long", "D", "z", "h", "Q", "1",
     "cy_h", "cy_hard", "cy_u", "CY_H"}

RECURSIVE WordsOfLen(_)
WordsOfLen(n) ==
    IF n = 0 THEN {<<>>}
    ELSE {Append(w, c) : w \in WordsOfLen(n - 1), c \in Alphabet}

\* the words of the special-case lexicon, also capitalised
LexiconWords ==
    DOMAIN SPECIAL_CASE_MAPPING
    \cup {[w EXCEPT ![1] = Upper(w[1])] : w \in DOMAIN SPECIAL_CASE_MAPPING}

\* the keys of more than one character of the two mapping tables
KeyWords ==
    {k \in DOMAIN LATIN_TO_CYRILLIC \cup DOMAIN CYRILLIC_TO_LATIN : Len(k) > 1}

\* the paired words of test_transliteration.py:25-43 with a labialised
\* consonant, as <<Latin, Cyrillic>>
TestPairs ==
    {<<<<"k", "'", "s_long", "y", "m">>, <<"cy_k", "cy_hard", "cy_u", "cy_y", "cy_m">>>>,
     <<<<"k", "s_long", "y", "d">>, <<"cy_h", "cy_hard", "cy_u", "cy_y", "cy_d">>>>,
     <<<<"g", "s_long", "y", "r">>, <<"cy_g", "cy_hard", "cy_u", "cy_y", "cy_r">>>>}

TestWords == {p[1] : p \in TestPairs} \cup {p[2] : p \in TestPairs}

Words ==
    UNION {WordsOfLen(n) : n \in 0..MaxLen} \cup LexiconWords \cup KeyWords
    \cup TestWords

\* ------------------------------------------------------------------------
\* latin_to_cyrillic / cyrillic_to_latin (transliteration.py:67-153)
\* ------------------------------------------------------------------------

\* a returned Python value: a string, or a list of strings
Str(s) == [list |-> FALSE, val |-> s]

Table(fn) == IF fn = "latin_to_cyrillic" THEN LATIN_TO_CYRILLIC ELSE CYRILLIC_TO_LATIN

\* `text.lower() in SPECIAL_CASE_MAPPING`
InLexicon(text) == LowerStr(text) \in DOMAIN SPECIAL_CASE_MAPPING

\* the lexicon value with the last element of a list entry taken
LexiconResult_last(fn, text) ==
    LET entry == SPECIAL_CASE_MAPPING[LowerStr(text)]
    IN  IF fn = "cyrillic_to_latin" /\ entry.list
        THEN Str(entry.val[Len(entry.val)]) ELSE entry

\* the value returned for a lexicon word: latin_to_cyrillic returns the entry
\* as it is, cyrillic_to_latin the first element of a list entry
LexiconResult(fn, text) ==
    LET entry == SPECIAL_CASE_MAPPING[LowerStr(text)]
    IN  IF fn = "cyrillic_to_latin" /\ entry.list THEN Str(entry.val[1]) ELSE entry

\* the trigraph test with the bound one too small
TrigraphAt_strict(table, text, i) ==
    i < Len(text) - 3 /\ LowerStr(Slice(text, i, i + 3)) \in DOMAIN table

\* `i < len(text) - 2 and text[i:i+3].lower() in table`
TrigraphAt(table, text, i) ==
    i < Len(text) - 2 /\ LowerStr(Slice(text, i, i + 3)) \in DOMAIN table

\* the two-character test never succeeding
DigraphAt_never(table, text, i) == FALSE

\* `i < len(text) - 1 and text[i:i+2].lower() in table`
DigraphAt(table, text, i) ==
    i < Len(text) - 1 /\ LowerStr(Slice(text, i, i + 2)) \in DOMAIN table

\* `text[i].lower() in table`
SingleAt(table, text, i) == <<Lower(text[i + 1])>> \in DOMAIN table

\* the single-character branch appending the character it read
SingleOut_keep(table, c) == <<c>>

\* what the single-character branch appends
SingleOut(table, c) ==
    IF IsUpper(c) THEN UpperStr(table[<<Lower(c)>>]) ELSE table[<<Lower(c)>>]

\* what a multi-character branch appends for the slice it matched
MultiOut(table, slice) == table[LowerStr(slice)]

\* the loop with an unmapped character dropped instead of kept
ScanStep_dropother(table, text, i) ==
    IF TrigraphAt(table, text, i)
    THEN [branch |-> "trigraph", out |-> MultiOut(table, Slice(text, i, i + 3)), adv |-> 3]
    ELSE IF DigraphAt(table, text, i)
    THEN [branch |-> "digraph", out |-> MultiOut(table, Slice(text, i, i + 2)), adv |-> 2]
    ELSE IF SingleAt(table, text, i)
    THEN [branch |-> "single", out |-> SingleOut(table, text[i + 1]), adv |-> 1]
    ELSE [branch |-> "other", out |-> <<>>, adv |-> 1]

\* one iteration of the while loop at position i
ScanStep(table, text, i) ==
    IF TrigraphAt(table, text, i)
    THEN [branch |-> "trigraph", out |-> MultiOut(table, Slice(text, i, i + 3)), adv |-> 3]
    ELSE IF DigraphAt(table, text, i)
    THEN [branch |-> "digraph", out |-> MultiOut(table, Slice(text, i, i + 2)), adv |-> 2]
    ELSE IF SingleAt(table, text, i)
    THEN [branch |-> "single", out |-> SingleOut(table, text[i + 1]), adv |-> 1]
    ELSE [branch |-> "other", out |-> <<text[i + 1]>>, adv |-> 1]

RECURSIVE ScanFrom(_, _, _, _)
ScanFrom(table, text, i, acc) ==
    IF i < Len(text)
    THEN LET s == ScanStep(table, text, i)
         IN  ScanFrom(table, text, i + s.adv, acc \o s.out)
    ELSE acc

Transliterate(fn, text) ==
    IF InLexicon(text) THEN LexiconResult(fn, text)
    ELSE Str(ScanFrom(Table(fn), text, 0, <<>>))

latin_to_cyrillic(text) == Transliterate("latin_to_cyrillic", text)

cyrillic_to_latin(text) == Transliterate("cyrillic_to_latin", text)

\* ------------------------------------------------------------------------
\* generate_variants / get_all_script_variants (transliteration.py:155-209)
\* ------------------------------------------------------------------------

SeqToSet(s) == {s[k] : k \in 1..Len(s)}

\* the candidate inserted in front of the character instead of replacing it
Substitute_insert(text, k, cand) ==
    SubSeq(text, 1, k - 1) \o cand \o SubSeq(text, k, Len(text))

\* line 170: `text[:i] + variant_char + text[i+1:]`, for the k-th character
Substitute(text, k, cand) ==
    SubSeq(text, 1, k - 1) \o cand \o SubSeq(text, k + 1, Len(text))

\* list(set(variants)): the set of the strings generated
generate_variants(text) ==
    {text} \cup
    {Substitute(text, k, cand) :
        <<k, cand>> \in
            {<<k, cand>> \in (1..Len(text)) \X UNION {SeqToSet(COMMON_VARIANTS[key]) : key \in DOMAIN COMMON_VARIANTS} :
                /\ <<Lower(text[k])>> \in DOMAIN COMMON_VARIANTS
                /\ cand \in SeqToSet(COMMON_VARIANTS[<<Lower(text[k])>>])}}

\* `any(char in CYRILLIC_TO_LATIN for char in text.lower())`
has_cyrillic(text) ==
    \E k \in 1..Len(text) : <<Lower(text[k])>> \in DOMAIN CYRILLIC_TO_LATIN

\* the special-case variants added to the set
special_variants(text) ==
    IF InLexicon(text)
    THEN LET entry == SPECIAL_CASE_MAPPING[LowerStr(text)]
         IN  IF entry.list THEN SeqToSet(entry.val) ELSE {entry.val}
    ELSE {}

\* the variant set started empty
seed_variants_empty(text) == {}

\* the seed of the variant set: `set([text])`
seed_variants(text) == {text}

\* the set of which the returned list is an enumeration
get_all_script_variants(text) ==
    seed_variants(text) \cup special_variants(text) \cup
    (IF has_cyrillic(text)
     THEN LET latin_variant == cyrillic_to_latin(text).val
          IN  {latin_variant} \cup generate_variants(latin_variant)
     ELSE LET cyrillic_variant == latin_to_cyrillic(text).val
          IN  {cyrillic_variant} \cup generate_variants(text))

\* ------------------------------------------------------------------------
\* The search backend (the Meilisearch index queried by search_client.py)
\* ------------------------------------------------------------------------

\* the hits the backend returns during one request, all sub-queries together
MaxHits == 3

\* the largest `limit` argument
MaxLimit == 2

\* the largest `limit_per_source` argument
MaxPerSource == 2

\* a `limit` argument of which the double exceeds RawHitCap
LargeLimit == 51

\* a field that a hit does not have
NoText == <<"<absent>">>

\* the Python value None where a string is expected
NoneText == <<"<None>">>

\* a hit without a `_rankingScore` field
NoScore == -1

\* `_rankingScore` values: absent (sorted as 0.0) or a positive score
Scores == {NoScore, 1}

\* source labels of the indexed dictionaries; "FW_A" is the full-width
\* capital letter A (U+FF21), "fw_a" its lower case (U+FF41)
SourceA == <<"M", "y", "-", "A", "B", "C">>

SourceB == <<"x", "FW_A", "b">>

\* the indexed documents (index_dictionaries.py stores id, term, definition,
\* source and, when the paragraph is found, expanded_context / full_context)
Documents ==
    [d1 |-> [term |-> <<"t1">>, definition |-> <<"def1">>, source |-> SourceA,
             expanded_context |-> <<"exp1">>, full_context |-> <<"full1">>],
     d2 |-> [term |-> <<"t2">>, definition |-> <<>>, source |-> SourceA,
             expanded_context |-> NoText, full_context |-> NoText],
     d3 |-> [term |-> <<"t3">>, definition |-> <<"def3">>, source |-> SourceB,
             expanded_context |-> NoText, full_context |-> NoText]]

DocIds == DOMAIN Documents

\* the hit returned for a document: the attributes asked for and the score
BackendHit(id, score, attrs) ==
    [id |-> id,
     term |-> Documents[id].term,
     definition |-> Documents[id].definition,
     source |-> Documents[id].source,
     rankingScore |-> score,
     expanded_context |->
         IF "expanded_context" \in attrs THEN Documents[id].expanded_context ELSE NoText,
     full_context |->
         IF "full_context" \in attrs THEN Documents[id].full_context ELSE NoText]

HitIds(hits) == {hits[k].id : k \in 1..Len(hits)}

\* hit lists of n different documents, in any order and with any scores
RECURSIVE HitListsOfLen(_, _)
HitListsOfLen(attrs, n) ==
    IF n = 0 THEN {<<>>}
    ELSE UNION {{Append(l, BackendHit(id, s, attrs)) :
                    id \in DocIds \ HitIds(l), s \in Scores} :
                l \in HitListsOfLen(attrs, n - 1)}

Min(a, b) == IF a <= b THEN a ELSE b

Max(a, b) == IF a >= b THEN a ELSE b

NoResponse == [hits |-> <<>>, estimatedTotalHits |-> -1, processingTimeMs |-> -1]

\* ------------------------------------------------------------------------
\* search_dictionary (search_client.py:13-206)
\* ------------------------------------------------------------------------

RawHitCap == 100

\* the values of context_size (api.py validates them)
ContextSizes == {"default", "expanded", "full"}

\* truthiness of the `source` argument: None and "" are false
SourceGiven(source) == source # NoneText /\ source # <<>>

\* the options with the raw-hit limit not capped
BuildSearchParams_nocap(limit, context_size, source) ==
    [showRankingScore |-> TRUE,
     attributesToRetrieve |->
         <<"term", "definition", "source", "id">> \o
         (IF context_size = "expanded" THEN <<"expanded_context">>
          ELSE IF context_size = "full" THEN <<"full_context">>
          ELSE <<>>),
     limit |-> IF SourceGiven(source) THEN RawHitCap ELSE limit * 2]

\* lines 40-57
BuildSearchParams(limit, context_size, source) ==
    [showRankingScore |-> TRUE,
     attributesToRetrieve |->
         <<"term", "definition", "source", "id">> \o
         (IF context_size = "expanded" THEN <<"expanded_context">>
          ELSE IF context_size = "full" THEN <<"full_context">>
          ELSE <<>>),
     limit |-> IF SourceGiven(source) THEN RawHitCap ELSE Min(RawHitCap, limit * 2)]

\* the attributes stored with a document (html_processor.py:112-119)
AllAttributes ==
    <<"term", "definition", "source", "id", "expanded_context", "full_context">>

\* the values of attributesToRetrieve, and the stored attributes
AttributeLists ==
    {BuildSearchParams(0, cs, NoneText).attributesToRetrieve : cs \in ContextSizes}
    \cup {AllAttributes}

\* the responses with at most n hits, each of another document, by the
\* attributes asked for; the estimate is the number of matching documents
\* and the processing time grows with it
ResponseSets ==
    [attrs \in AttributeLists |->
        [n \in 0..MaxHits |->
            {[hits |-> h, estimatedTotalHits |-> Len(h), processingTimeMs |-> Len(h) + 1] :
                h \in UNION {HitListsOfLen(SeqToSet(attrs), k) : k \in 0..n}}]]

\* the responses index.search may give for one call with these options: at
\* most params.limit hits
Responses(params) ==
    ResponseSets[params.attributesToRetrieve][Min(MaxHits, params.limit)]

\* lines 118-123
EmptyMerged(query) ==
    [hits |-> <<>>, query |-> query, processingTimeMs |-> 0, estimatedTotalHits |-> 0]

\* a hit whose id was seen replaces the hit merged earlier
RECURSIVE MergeHits_lastwins(_, _, _)
MergeHits_lastwins(hits, seen, new) ==
    IF new = <<>> THEN [hits |-> hits, seen |-> seen]
    ELSE LET hit == Head(new)
         IN  IF hit.id \notin seen
             THEN MergeHits_lastwins(Append(hits, hit), seen \cup {hit.id}, Tail(new))
             ELSE MergeHits_lastwins(
                      [k \in 1..Len(hits) |-> IF hits[k].id = hit.id THEN hit ELSE hits[k]],
                      seen, Tail(new))

\* lines 138-142: the hits of one response are appended unless their id was seen
RECURSIVE MergeHits(_, _, _)
MergeHits(hits, seen, new) ==
    IF new = <<>> THEN [hits |-> hits, seen |-> seen]
    ELSE LET hit == Head(new)
         IN  IF hit.id \notin seen
             THEN MergeHits(Append(hits, hit), seen \cup {hit.id}, Tail(new))
             ELSE MergeHits(hits, seen, Tail(new))

\* the estimates added up
MergeEstimate_sum(estimate, variant_estimate) == estimate + variant_estimate

\* lines 145-148
MergeEstimate(estimate, variant_estimate) == Max(estimate, variant_estimate)

\* line 135
MergeTime(time, variant_time) == time + variant_time

\* `x.get("_rankingScore", 0.0)`
ScoreKey(hit) == IF hit.rankingScore = NoScore THEN 0 ELSE hit.rankingScore

\* insertion of one hit in front of the hits whose key is equal
InsertByScore_unstable(sorted, hit) ==
    LET before == {k \in 1..Len(sorted) : ScoreKey(sorted[k]) <= ScoreKey(hit)}
        pos == IF before = {} THEN Len(sorted) + 1
               ELSE CHOOSE k \in before : \A j \in before : k <= j
    IN  SubSeq(sorted, 1, pos - 1) \o <<hit>> \o SubSeq(sorted, pos, Len(sorted))

\* insertion of one hit behind every hit whose key is not smaller
InsertByScore(sorted, hit) ==
    LET before == {k \in 1..Len(sorted) : ScoreKey(sorted[k]) < ScoreKey(hit)}
        pos == IF before = {} THEN Len(sorted) + 1
               ELSE CHOOSE k \in before : \A j \in before : k <= j
    IN  SubSeq(sorted, 1, pos - 1) \o <<hit>> \o SubSeq(sorted, pos, Len(sorted))

\* lines 151-155: sorted(hits, key=score, reverse=True), a stable sort
RECURSIVE SortByScore(_)
SortByScore(hits) ==
    IF hits = <<>> THEN <<>>
    ELSE InsertByScore(SortByScore(SubSeq(hits, 1, Len(hits) - 1)), hits[Len(hits)])

\* unicodedata.normalize('NFKC', c) of one character of the source labels
NFKC(c) ==
    IF c = "FW_A" THEN "A" ELSE IF c = "fw_a" THEN "a" ELSE c

\* `unicodedata.normalize('NFKC', s.lower())`
Normalize(s) == [k \in 1..Len(s) |-> NFKC(Lower(s[k]))]

\* Python `sub in s` for strings
Contains(sub, s) ==
    \E k \in 0..(Len(s) - Len(sub)) : SubSeq(s, k + 1, k + Len(sub)) = sub

\* the filter compared with the whole label
SourceMatches_exact(source, hit) == Normalize(source) = Normalize(hit.source)

\* lines 74-82, 162-170
SourceMatches(source, hit) == Contains(Normalize(source), Normalize(hit.source))

\* the list not cut
Truncate_all(hits, limit) == hits

\* hits[:limit]
Truncate(hits, limit) ==
    IF limit >= 0 THEN SubSeq(hits, 1, Min(limit, Len(hits)))
    ELSE SubSeq(hits, 1, Max(0, Len(hits) + limit))

\* lines 70-88, 158-176
FilterBySource(hits, source, limit) ==
    Truncate(SelectSeq(hits, LAMBDA hit : SourceMatches(source, hit)), limit)

\* source_counts of the cap loop: the number of kept hits per source
CountOf(source_counts, src) ==
    IF src \in DOMAIN source_counts THEN source_counts[src] ELSE 0

\* the cap loop admitting one hit too many per source
RECURSIVE CapLoop_offbyone(_, _, _, _, _, _)
CapLoop_offbyone(hits, k, source_counts, filtered_hits, limit_per_source, limit) ==
    IF k > Len(hits) THEN filtered_hits
    ELSE LET hit == hits[k]
             n == CountOf(source_counts, hit.source)
         IN  IF n <= limit_per_source
             THEN LET kept == Append(filtered_hits, hit)
                      counts == [s \in DOMAIN source_counts \cup {hit.source} |->
                                    IF s = hit.source THEN n + 1 ELSE source_counts[s]]
                  IN  IF Len(kept) >= limit THEN kept
                      ELSE CapLoop_offbyone(hits, k + 1, counts, kept,
                                            limit_per_source, limit)
             ELSE CapLoop_offbyone(hits, k + 1, source_counts, filtered_hits,
                                   limit_per_source, limit)

\* lines 91-109, 179-197: the loop from position k on
RECURSIVE CapLoop(_, _, _, _, _, _)
CapLoop(hits, k, source_counts, filtered_hits, limit_per_source, limit) ==
    IF k > Len(hits) THEN filtered_hits
    ELSE LET hit == hits[k]
             n == CountOf(source_counts, hit.source)
         IN  IF n < limit_per_source
             THEN LET kept == Append(filtered_hits, hit)
                      counts == [s \in DOMAIN source_counts \cup {hit.source} |->
                                    IF s = hit.source THEN n + 1 ELSE source_counts[s]]
                  IN  IF Len(kept) >= limit THEN kept
                      ELSE CapLoop(hits, k + 1, counts, kept, limit_per_source, limit)
             ELSE CapLoop(hits, k + 1, source_counts, filtered_hits,
                          limit_per_source, limit)

\* the cap loop ending at the first hit of a source that has reached its cap
CapPerSource_stopearly(hits, limit_per_source, limit) ==
    LET capped == {k \in 1..Len(hits) :
                      Cardinality({j \in 1..(k - 1) : hits[j].source = hits[k].source})
                          >= limit_per_source}
        last == IF capped = {} THEN Len(hits)
                ELSE (CHOOSE k \in capped : \A j \in capped : k <= j) - 1
    IN  CapLoop(SubSeq(hits, 1, last), 1, <<>>, <<>>, limit_per_source, limit)

\* lines 91-109, 179-197
CapPerSource(hits, limit_per_source, limit) ==
    CapLoop(hits, 1, <<>>, <<>>, limit_per_source, limit)

\* the filter step: exactly one of the two branches
FilterHits(hits, source, limit_per_source, limit) ==
    IF SourceGiven(source) THEN FilterBySource(hits, source, limit)
    ELSE CapPerSource(hits, limit_per_source, limit)

\* ------------------------------------------------------------------------
\* process_search_results / generate_expanded_context
\* (search_client.py:208-277)
\* ------------------------------------------------------------------------

ExpandedNote == "[Note: This is an expanded context view. ...]"

FullNote == "[Note: This is a full context view. ...]"

\* the synthesis without the test for an empty definition
generate_expanded_context_noguard(definition, context_size) ==
    IF context_size = "default" THEN NoneText
    ELSE IF context_size = "expanded" THEN definition \o <<ExpandedNote>>
    ELSE IF context_size = "full" THEN definition \o <<FullNote>>
    ELSE NoneText

\* lines 240-277
generate_expanded_context(definition, context_size) ==
    IF definition = <<>> \/ context_size = "default" THEN NoneText
    ELSE IF context_size = "expanded" THEN definition \o <<ExpandedNote>>
    ELSE IF context_size = "full" THEN definition \o <<FullNote>>
    ELSE NoneText

\* the shaping with full_context left in place for 'default'
ShapeHit_keepfull(hit, context_size) ==
    IF context_size = "default"
    THEN [hit EXCEPT !.expanded_context = NoText]
    ELSE IF context_size = "expanded"
    THEN IF hit.expanded_context = NoText
         THEN [hit EXCEPT !.expanded_context =
                              generate_expanded_context(hit.definition, context_size)]
         ELSE hit
    ELSE IF context_size = "full"
    THEN IF hit.full_context # NoText
         THEN [hit EXCEPT !.expanded_context = hit.full_context, !.full_context = NoText]
         ELSE [hit EXCEPT !.expanded_context =
                              generate_expanded_context(hit.definition, context_size)]
    ELSE hit

\* lines 216-238: what process_search_results does to one hit
ShapeHit(hit, context_size) ==
    IF context_size = "default"
    THEN [hit EXCEPT !.expanded_context = NoText, !.full_context = NoText]
    ELSE IF context_size = "expanded"
    THEN IF hit.expanded_context = NoText
         THEN [hit EXCEPT !.expanded_context =
                              generate_expanded_context(hit.definition, context_size)]
         ELSE hit
    ELSE IF context_size = "full"
    THEN IF hit.full_context # NoText
         THEN [hit EXCEPT !.expanded_context = hit.full_context, !.full_context = NoText]
         ELSE [hit EXCEPT !.expanded_context =
                              generate_expanded_context(hit.definition, context_size)]
    ELSE hit

\* the shaping that copies full_context for 'full' and leaves it in the hit
process_search_results_norename(hits, context_size) ==
    [k \in 1..Len(hits) |->
        [ShapeHit(hits[k], context_size) EXCEPT
            !.full_context = IF context_size = "full" THEN hits[k].full_context ELSE @]]

\* lines 208-238
process_search_results(hits, context_size) ==
    [k \in 1..Len(hits) |-> ShapeHit(hits[k], context_size)]

\* the hits of the single search left as the backend returned them
standard_hits_unshaped(hits, context_size) == hits

\* lines 66-67: the hits of the single search after process_search_results
standard_hits(hits, context_size) == process_search_results(hits, context_size)

\* lines 129-148: the body of the loop over the variants for one response
MergeVariant(merged, seen, r) ==
    LET m == MergeHits(merged.hits, seen, r.hits)
    IN  [merged |-> [merged EXCEPT
                        !.processingTimeMs = MergeTime(@, r.processingTimeMs),
                        !.hits = m.hits,
                        !.estimatedTotalHits = MergeEstimate(@, r.estimatedTotalHits)],
         seen |-> m.seen]

\* lines 128-148: the loop over the variants taken in the given order
RECURSIVE MergeLoop(_, _, _, _)
MergeLoop(order, resp, merged, seen) ==
    IF order = <<>> THEN merged
    ELSE LET s == MergeVariant(merged, seen, resp[Head(order)])
         IN  MergeLoop(Tail(order), resp, s.merged, s.seen)

\* search_dictionary as a function of its arguments, of the order in which
\* list(set) enumerates the variants and of the backend's responses
search_dictionary(a, order, resp) ==
    IF ~a.use_transliteration
    THEN LET r == resp[a.query]
         IN  [hits |-> FilterHits(standard_hits(r.hits, a.context_size),
                                  a.source, a.limit_per_source, a.limit),
              query |-> a.query,
              processingTimeMs |-> r.processingTimeMs,
              estimatedTotalHits |-> r.estimatedTotalHits]
    ELSE LET merged == MergeLoop(order, resp, EmptyMerged(a.query), {})
             sorted == SortByScore(merged.hits)
             filtered == FilterHits(sorted, a.source, a.limit_per_source, a.limit)
         IN  [merged EXCEPT !.hits = process_search_results(filtered, a.context_size)]

\* ------------------------------------------------------------------------
\* State
\* ------------------------------------------------------------------------

VARIABLES
    fn,              \* the function that was called
    text,            \* the argument of a transliteration.py function
    pc,              \* position in the function
    i,               \* scan position (0-based, as in the code)
    result,          \* the output built so far
    branch,          \* the branch the last loop iteration took
    ret,             \* the value a transliteration.py function returned
    args,            \* the arguments of search_dictionary
    search_params,   \* the options of every backend call
    backend,         \* the responses of the backend so far, by query string
    pending,         \* the variants not queried yet
    queried,         \* the query strings sent to the backend, in order
    variant_result,  \* the response to the last backend call
    seen_ids,        \* ids of the hits merged so far
    retrieves_all,   \* the index returns every stored attribute of a hit
    exception,       \* the exception search_dictionary raised
    merged_results,  \* the result under construction, and the one returned
    request,         \* the HTTP request an endpoint of api.py received
    health,          \* the condition of the search engine
    healthy,         \* what health_check returned for the request, if called
    probed,          \* health_check made its test search
    response         \* the HTTP response to the request

tvars == <<fn, text, i, result, branch, ret>>

svars == <<args, search_params, backend, pending, queried, variant_result,
           seen_ids, retrieves_all, exception, merged_results>>

avars == <<request, health, healthy, probed, response>>

vars == <<fn, text, pc, i, result, branch, ret, args, search_params, backend,
          pending, queried, variant_result, seen_ids, retrieves_all, exception,
          merged_results, request, health, healthy, probed, response>>

NoValue == [list |-> FALSE, val |-> <<"<none>">>]

Functions ==
    {"latin_to_cyrillic", "cyrillic_to_latin", "generate_variants",
     "get_all_script_variants"}

NoArgs ==
    [query |-> <<>>, limit |-> 0, limit_per_source |-> 0,
     use_transliteration |-> FALSE, context_size |-> "default", source |-> NoneText]

NoParams == [showRankingScore |-> FALSE, attributesToRetrieve |-> <<>>, limit |-> 0]

\* the backend has not been called
NoBackend == <<>>

\* search_dictionary has raised nothing
NoException == "<none>"

\* no endpoint was called: the function is used on its own
NoRequest == [endpoint |-> "<none>"]

NoResponse_http == [status |-> 0]

\* the state of the API layer while a function is used on its own
\* a search engine that runs, reports 'available', has the index and
\* answers searches
HealthyEngine ==
    [reachable |-> TRUE, status |-> "available", index_exists |-> TRUE,
     search_works |-> TRUE]

IdleApi ==
    /\ request = NoRequest
    /\ health = HealthyEngine
    /\ healthy = "not called"
    /\ probed = FALSE
    /\ response = NoResponse_http

InitTranslit ==
    /\ fn \in Functions
    /\ text \in Words
    /\ pc = "start"
    /\ i = 0
    /\ result = <<>>
    /\ branch = "none"
    /\ ret = NoValue
    /\ args = NoArgs
    /\ search_params = NoParams
    /\ backend = NoBackend
    /\ pending = {}
    /\ queried = <<>>
    /\ variant_result = NoResponse
    /\ seen_ids = {}
    /\ retrieves_all = FALSE
    /\ exception = NoException
    /\ merged_results = EmptyMerged(<<>>)
    /\ IdleApi

\* lines 78-79, 120-125: the lexicon entry is returned without a scan
SpecialCase ==
    /\ pc = "start" /\ fn \in {"latin_to_cyrillic", "cyrillic_to_latin"}
    /\ InLexicon(text)
    /\ ret' = LexiconResult(fn, text)
    /\ branch' = "special"
    /\ pc' = "done"
    /\ UNCHANGED <<fn, text, i, result>>
    /\ UNCHANGED svars
    /\ UNCHANGED avars

\* lines 82-83, 128-129
BeginScan ==
    /\ pc = "start" /\ fn \in {"latin_to_cyrillic", "cyrillic_to_latin"}
    /\ ~InLexicon(text)
    /\ result' = <<>>
    /\ i' = 0
    /\ pc' = "scan"
    /\ UNCHANGED <<fn, text, branch, ret>>
    /\ UNCHANGED svars
    /\ UNCHANGED avars

\* lines 86-89, 132-135
ScanTrigraph ==
    /\ pc = "scan" /\ i < Len(text)
    /\ ScanStep(Table(fn), text, i).branch = "trigraph"
    /\ result' = result \o ScanStep(Table(fn), text, i).out
    /\ i' = i + ScanStep(Table(fn), text, i).adv
    /\ branch' = "trigraph"
    /\ UNCHANGED <<fn, text, pc, ret>>
    /\ UNCHANGED svars
    /\ UNCHANGED avars

\* lines 91-94, 137-140
ScanDigraph ==
    /\ pc = "scan" /\ i < Len(text)
    /\ ScanStep(Table(fn), text, i).branch = "digraph"
    /\ result' = result \o ScanStep(Table(fn), text, i).out
    /\ i' = i + ScanStep(Table(fn), text, i).adv
    /\ branch' = "digraph"
    /\ UNCHANGED <<fn, text, pc, ret>>
    /\ UNCHANGED svars
    /\ UNCHANGED avars

\* lines 96-101, 142-147
ScanSingle ==
    /\ pc = "scan" /\ i < Len(text)
    /\ ScanStep(Table(fn), text, i).branch = "single"
    /\ result' = result \o ScanStep(Table(fn), text, i).out
    /\ i' = i + ScanStep(Table(fn), text, i).adv
    /\ branch' = "single"
    /\ UNCHANGED <<fn, text, pc, ret>>
    /\ UNCHANGED svars
    /\ UNCHANGED avars

\* lines 102-105, 148-151
ScanOther ==
    /\ pc = "scan" /\ i < Len(text)
    /\ ScanStep(Table(fn), text, i).branch = "other"
    /\ result' = result \o ScanStep(Table(fn), text, i).out
    /\ i' = i + ScanStep(Table(fn), text, i).adv
    /\ branch' = "other"
    /\ UNCHANGED <<fn, text, pc, ret>>
    /\ UNCHANGED svars
    /\ UNCHANGED avars

\* lines 107, 153
ReturnResult ==
    /\ pc = "scan"
    /\ ~(i < Len(text))
    /\ ret' = Str(result)
    /\ pc' = "done"
    /\ UNCHANGED <<fn, text, i, result, branch>>
    /\ UNCHANGED svars
    /\ UNCHANGED avars

\* get_all_script_variants, lines 185-209: the returned list holds the
\* elements of the set in an unspecified order; ret.val is that set
GetAllScriptVariants ==
    /\ pc = "start" /\ fn = "get_all_script_variants"
    /\ ret' = [list |-> TRUE, val |-> get_all_script_variants(text)]
    /\ pc' = "done"
    /\ UNCHANGED <<fn, text, i, result, branch>>
    /\ UNCHANGED svars
    /\ UNCHANGED avars

\* generate_variants, lines 165-173: ret.val is the set of which the
\* returned list is an enumeration
GenerateVariants ==
    /\ pc = "start" /\ fn = "generate_variants"
    /\ ret' = [list |-> TRUE, val |-> generate_variants(text)]
    /\ pc' = "done"
    /\ UNCHANGED <<fn, text, i, result, branch>>
    /\ UNCHANGED svars
    /\ UNCHANGED avars

NextTranslit ==
    \/ GenerateVariants
    \/ SpecialCase
    \/ BeginScan
    \/ ScanTrigraph
    \/ ScanDigraph
    \/ ScanSingle
    \/ ScanOther
    \/ ReturnResult
    \/ GetAllScriptVariants

SpecTranslit == InitTranslit /\ [][NextTranslit]_vars

\* ------------------------------------------------------------------------
\* search_dictionary as a state machine
\* ------------------------------------------------------------------------

\* the queries searched: one with a single variant, one with two
SearchQueries == {<<"'">>, <<"h">>}

\* the `source` arguments: None, "abc" and "<U+FF21>b"
SourceFilters == {NoneText, <<"a", "b", "c">>, <<"FW_A", "b">>}

\* the requests that vary the limit and the cap, with the default context
\* size; the large limit comes with the largest cap
LimitArgs ==
    [query : SearchQueries,
     limit : 0..MaxLimit,
     limit_per_source : 1..MaxPerSource,
     use_transliteration : BOOLEAN,
     context_size : {"default"},
     source : SourceFilters]
    \cup
    [query : SearchQueries,
     limit : {LargeLimit},
     limit_per_source : {MaxPerSource},
     use_transliteration : BOOLEAN,
     context_size : {"default"},
     source : SourceFilters \ {<<"FW_A", "b">>}]

\* the requests that vary the context size, with the largest limit and cap
ContextArgs ==
    [query : SearchQueries,
     limit : {MaxLimit},
     limit_per_source : {MaxPerSource},
     use_transliteration : BOOLEAN,
     context_size : ContextSizes,
     source : SourceFilters]

SearchArgs == LimitArgs \cup ContextArgs

IdleTranslit ==
    /\ fn = "search_dictionary"
    /\ text = <<>>
    /\ i = 0
    /\ result = <<>>
    /\ branch = "none"
    /\ ret = NoValue

InitSearch ==
    /\ IdleTranslit
    /\ pc = "start"
    /\ args \in SearchArgs
    /\ search_params = NoParams
    /\ backend = NoBackend
    /\ pending = {}
    /\ queried = <<>>
    /\ variant_result = NoResponse
    /\ seen_ids = {}
    /\ retrieves_all \in BOOLEAN
    /\ retrieves_all => args \in ContextArgs
    /\ exception = NoException
    /\ merged_results = EmptyMerged(<<>>)
    /\ IdleApi

\* the hits returned by the first n sub-queries of the request
RECURSIVE HitsReceived(_)
HitsReceived(n) ==
    IF n = 0 THEN 0
    ELSE (IF queried[n] \in DOMAIN backend THEN Len(backend[queried[n]].hits) ELSE 0)
         + HitsReceived(n - 1)

\* the responses to a search with these options: the hits carry the
\* attributes asked for, or every stored attribute when the index does not
\* restrict them
AnswersTo(params) ==
    Responses(IF retrieves_all
              THEN [params EXCEPT !.attributesToRetrieve = AllAttributes]
              ELSE params)

\* index.search(q, search_params) answers with r
IndexSearch(q, r) ==
    /\ r \in AnswersTo(search_params)
    /\ HitsReceived(Len(queried)) + Len(r.hits) <= MaxHits
    /\ backend' = backend @@ (q :> r)

\* lines 40-57
PrepareSearch ==
    /\ pc = "start" /\ fn = "search_dictionary"
    /\ search_params' = BuildSearchParams(args.limit, args.context_size, args.source)
    /\ pc' = "dispatch"
    /\ UNCHANGED <<exception, retrieves_all, args, backend, pending, queried, variant_result, seen_ids,
                   merged_results>>
    /\ UNCHANGED tvars
    /\ UNCHANGED avars

\* lines 59-67: one search for the query, then process_search_results
StandardSearch ==
    /\ pc = "dispatch" /\ ~args.use_transliteration
    /\ \E r \in AnswersTo(search_params) :
          /\ IndexSearch(args.query, r)
          /\ variant_result' = r
          /\ merged_results' =
                 [hits |-> standard_hits(r.hits, args.context_size),
                  query |-> args.query,
                  processingTimeMs |-> r.processingTimeMs,
                  estimatedTotalHits |-> r.estimatedTotalHits]
    /\ queried' = Append(queried, args.query)
    /\ pc' = "filter"
    /\ UNCHANGED <<exception, retrieves_all, args, search_params, pending, seen_ids>>
    /\ UNCHANGED tvars
    /\ UNCHANGED avars

\* the variants without the query itself
query_variants_others(query) == get_all_script_variants(query) \ {query}

\* line 115: the variants searched for
query_variants(query) == get_all_script_variants(query)

\* lines 115-126
StartVariants ==
    /\ pc = "dispatch" /\ args.use_transliteration
    /\ pending' = query_variants(args.query)
    /\ merged_results' = EmptyMerged(args.query)
    /\ seen_ids' = {}
    /\ pc' = "variants"
    /\ UNCHANGED <<exception, retrieves_all, args, search_params, backend, queried, variant_result>>
    /\ UNCHANGED tvars
    /\ UNCHANGED avars

\* lines 128-148: one iteration of the loop over the variants; the list
\* comes from a set, so any variant not yet taken can be the next one
QueryVariant ==
    /\ pc = "variants"
    /\ \E variant \in pending :
          /\ pending' = pending \ {variant}
          /\ queried' = Append(queried, variant)
          /\ \E r \in AnswersTo(search_params) :
                /\ IndexSearch(variant, r)
                /\ variant_result' = r
                /\ seen_ids' = MergeVariant(merged_results, seen_ids, r).seen
                /\ merged_results' = MergeVariant(merged_results, seen_ids, r).merged
    /\ UNCHANGED <<exception, retrieves_all, args, search_params, pc>>
    /\ UNCHANGED tvars
    /\ UNCHANGED avars

\* a failed search of a variant is skipped and the loop goes on
SearchRaises_dropvariant ==
    /\ \/ /\ pc = "dispatch" /\ ~args.use_transliteration
          /\ queried' = Append(queried, args.query)
          /\ exception' = "RuntimeError"
          /\ pc' = "raised"
          /\ UNCHANGED pending
       \/ /\ pc = "variants"
          /\ \E variant \in pending :
                /\ pending' = pending \ {variant}
                /\ queried' = Append(queried, variant)
          /\ UNCHANGED <<exception, pc>>
    /\ UNCHANGED <<retrieves_all, args, search_params, backend, variant_result, seen_ids,
                   merged_results>>
    /\ UNCHANGED tvars
    /\ UNCHANGED avars

\* index.search raises (lines 61-64, 129-132): the handler of lines 203-206
\* raises RuntimeError to the caller; no response is recorded for the query
SearchRaises ==
    /\ \/ /\ pc = "dispatch" /\ ~args.use_transliteration
          /\ queried' = Append(queried, args.query)
          /\ UNCHANGED pending
       \/ /\ pc = "variants"
          /\ \E variant \in pending :
                /\ pending' = pending \ {variant}
                /\ queried' = Append(queried, variant)
    /\ exception' = "RuntimeError"
    /\ pc' = "raised"
    /\ UNCHANGED <<retrieves_all, args, search_params, backend, variant_result, seen_ids,
                   merged_results>>
    /\ UNCHANGED tvars
    /\ UNCHANGED avars

\* lines 151-155
SortMerged ==
    /\ pc = "variants" /\ pending = {}
    /\ merged_results' = [merged_results EXCEPT !.hits = SortByScore(@)]
    /\ variant_result' = NoResponse
    /\ pc' = "filter"
    /\ UNCHANGED <<exception, retrieves_all, args, search_params, backend, pending, queried, seen_ids>>
    /\ UNCHANGED tvars
    /\ UNCHANGED avars

\* lines 70-88, 158-176
FilterSource ==
    /\ pc = "filter" /\ SourceGiven(args.source)
    /\ merged_results' =
           [merged_results EXCEPT !.hits = FilterBySource(@, args.source, args.limit)]
    /\ pc' = IF args.use_transliteration THEN "shape" ELSE "done"
    /\ UNCHANGED <<exception, retrieves_all, args, search_params, backend, pending, queried, variant_result,
                   seen_ids>>
    /\ UNCHANGED tvars
    /\ UNCHANGED avars

\* lines 90-109, 178-197
LimitPerSource ==
    /\ pc = "filter" /\ ~SourceGiven(args.source)
    /\ merged_results' =
           [merged_results EXCEPT
               !.hits = CapPerSource(@, args.limit_per_source, args.limit)]
    /\ pc' = IF args.use_transliteration THEN "shape" ELSE "done"
    /\ UNCHANGED <<exception, retrieves_all, args, search_params, backend, pending, queried, variant_result,
                   seen_ids>>
    /\ UNCHANGED tvars
    /\ UNCHANGED avars

\* lines 200-202
ShapeMerged ==
    /\ pc = "shape"
    /\ merged_results' =
           [merged_results EXCEPT
               !.hits = process_search_results(@, args.context_size)]
    /\ pc' = "done"
    /\ UNCHANGED <<exception, retrieves_all, args, search_params, backend, pending, queried, variant_result,
                   seen_ids>>
    /\ UNCHANGED tvars
    /\ UNCHANGED avars

NextSearch ==
    \/ PrepareSearch
    \/ StandardSearch
    \/ StartVariants
    \/ QueryVariant
    \/ SearchRaises
    \/ SortMerged
    \/ FilterSource
    \/ LimitPerSource
    \/ ShapeMerged

SpecSearch == InitSearch /\ [][NextSearch]_vars

\* ------------------------------------------------------------------------
\* The search endpoints of api.py: search (GET /search-html), search_post
\* (POST /search-html) and search_path (GET /search-html/{query})
\* ------------------------------------------------------------------------

Endpoints == {"search", "search_post", "search_path"}

\* `ge=1, le=50` of the Query declarations and the tests of the handlers
ApiMinLimit == 1

ApiMaxLimit == 50

\* a context_size that is none of the valid ones
BadContextSize == "huge"

\* the conditions of the search engine that health_check tells apart
Engines ==
    [reachable : BOOLEAN, status : {"available", "unavailable"},
     index_exists : BOOLEAN, search_works : BOOLEAN]

\* the requests, with an empty query, a query of one space and a query of
\* one character; an empty query cannot reach search_path, whose route needs
\* a non-empty path segment (InitApi)
Requests ==
    [endpoint : Endpoints,
     query : {<<>>, <<" ">>, <<"'">>},
     limit : {ApiMinLimit - 1, ApiMinLimit, ApiMaxLimit, ApiMaxLimit + 1},
     limit_per_source : {MaxPerSource},
     transliteration : BOOLEAN,
     context_size : {"default", "full", BadContextSize},
     source : {NoneText, <<"a", "b", "c">>}]

\* str.strip() for the space character
RECURSIVE Strip(_)
Strip(s) ==
    IF s = <<>> THEN s
    ELSE IF Head(s) = " " THEN Strip(Tail(s))
    ELSE IF s[Len(s)] = " " THEN Strip(SubSeq(s, 1, Len(s) - 1))
    ELSE s

\* the constraints declared with the parameters (lines 93-98, 185-190,
\* 283-288): the two GET endpoints declare ge=1, le=50 for limit and
\* limit_per_source, search_post declares none; 0 stands for no error
ParameterError(req) ==
    IF req.endpoint \in {"search", "search_path"}
       /\ (\/ req.limit < ApiMinLimit \/ req.limit > ApiMaxLimit
           \/ req.limit_per_source < ApiMinLimit \/ req.limit_per_source > ApiMaxLimit)
    THEN 422
    ELSE 0

\* health_check trusting the reported status alone
health_check_statusonly(engine) ==
    IF ~engine.reachable THEN FALSE
    ELSE IF engine.status # "available" THEN FALSE
    ELSE TRUE

\* search_client.py:279-319
health_check(engine) ==
    IF ~engine.reachable THEN FALSE
    ELSE IF engine.status # "available" THEN FALSE
    ELSE IF ~engine.index_exists THEN FALSE
    ELSE IF ~engine.search_works THEN FALSE
    ELSE TRUE

\* health_check got as far as its test search (line 311)
TestSearchMade(engine) ==
    engine.reachable /\ engine.status = "available" /\ engine.index_exists

\* the tests in the body of each handler, in the order of the code
\* (lines 107-113, 199-212, 298-316); 0 stands for no error
InputError(req) ==
    IF req.endpoint = "search_path" /\ Strip(req.query) = <<>> THEN 400
    ELSE IF req.endpoint \in {"search_post", "search_path"}
            /\ (req.limit < ApiMinLimit \/ req.limit > ApiMaxLimit) THEN 400
    ELSE IF req.context_size \notin ContextSizes THEN 400
    ELSE 0

\* lines 124-133: the SearchResult of a hit
SearchResult(hit) ==
    [term |-> hit.term,
     definition |-> hit.definition,
     score |-> ScoreKey(hit),
     source |-> hit.source,
     expanded_context |->
         IF hit.expanded_context \notin {NoText, NoneText, <<>>}
         THEN hit.expanded_context ELSE NoneText]

\* lines 138-144: the SearchResponse of a result
SearchResponse(req, res) ==
    [status |-> 200,
     query |-> req.query,
     total_hits |-> res.estimatedTotalHits,
     processing_time_ms |-> res.processingTimeMs,
     context_size |-> req.context_size,
     results |-> [k \in 1..Len(res.hits) |-> SearchResult(res.hits[k])]]

ErrorResponse(code) == [status |-> code]

InitApi ==
    /\ IdleTranslit
    /\ pc = "request"
    /\ request \in Requests
    /\ request.endpoint = "search_path" => request.query # <<>>
    /\ health \in Engines
    /\ healthy = "not called"
    /\ probed = FALSE
    /\ response = NoResponse_http
    /\ args = NoArgs
    /\ search_params = NoParams
    /\ backend = NoBackend
    /\ pending = {}
    /\ queried = <<>>
    /\ variant_result = NoResponse
    /\ seen_ids = {}
    /\ retrieves_all = FALSE
    /\ exception = NoException
    /\ merged_results = EmptyMerged(<<>>)

\* the framework checks the declared constraints before it calls the handler
ValidateParameters ==
    /\ pc = "request"
    /\ IF ParameterError(request) # 0
       THEN response' = ErrorResponse(ParameterError(request)) /\ pc' = "responded"
       ELSE response' = response /\ pc' = "handler"
    /\ UNCHANGED <<request, health, healthy, probed>>
    /\ UNCHANGED svars
    /\ UNCHANGED tvars

\* the first statement of each handler (lines 100-105, 192-197, 290-295)
HealthCheck ==
    /\ pc = "handler"
    /\ healthy' = IF health_check(health) THEN "True" ELSE "False"
    /\ probed' = TestSearchMade(health)
    /\ IF health_check(health)
       THEN response' = response /\ pc' = "checked"
       ELSE response' = ErrorResponse(503) /\ pc' = "responded"
    /\ UNCHANGED <<request, health>>
    /\ UNCHANGED svars
    /\ UNCHANGED tvars

\* the tests of the handler, then the call of search_dictionary
\* (lines 107-117, 199-216, 298-320)
ValidateInput ==
    /\ pc = "checked"
    /\ IF InputError(request) # 0
       THEN /\ response' = ErrorResponse(InputError(request))
            /\ pc' = "responded"
            /\ args' = args
       ELSE /\ response' = response
            /\ pc' = "start"
            /\ args' = [query |-> request.query,
                        limit |-> request.limit,
                        limit_per_source |-> request.limit_per_source,
                        use_transliteration |-> request.transliteration,
                        context_size |-> request.context_size,
                        source |-> request.source]
    /\ UNCHANGED <<request, health, healthy, probed>>
    /\ UNCHANGED <<exception, retrieves_all, search_params, backend, pending, queried,
                   variant_result, seen_ids, merged_results>>
    /\ UNCHANGED tvars

\* lines 119-153, 218-252, 322-364: the response made from the result, or
\* 500 when search_dictionary raised (lines 149-153, 249-252, and the
\* handler of lines 56-62 for search_path)
Respond ==
    /\ request # NoRequest
    /\ pc \in {"done", "raised"}
    /\ response' = IF pc = "done" THEN SearchResponse(request, merged_results)
                   ELSE ErrorResponse(500)
    /\ pc' = "responded"
    /\ UNCHANGED <<request, health, healthy, probed>>
    /\ UNCHANGED svars
    /\ UNCHANGED tvars

NextApi ==
    \/ ValidateParameters
    \/ HealthCheck
    \/ ValidateInput
    \/ NextSearch
    \/ Respond

SpecApi == InitApi /\ [][NextApi]_vars

\* ------------------------------------------------------------------------
\* Properties of the transliteration functions
\* ------------------------------------------------------------------------

VariantsReturned == pc = "done" /\ fn = "get_all_script_variants"

\* every lower-cased character is a single-character key of LATIN_TO_CYRILLIC
IsLatinWord(w) == \A k \in 1..Len(w) : <<Lower(w[k])>> \in DOMAIN LATIN_TO_CYRILLIC

\* every lower-cased character is a key of CYRILLIC_TO_LATIN
IsCyrillicWord(w) == \A k \in 1..Len(w) : <<Lower(w[k])>> \in DOMAIN CYRILLIC_TO_LATIN

\* C1: the variants of a word written entirely in one script contain its
\* transliteration into the other script: latin_to_cyrillic(w) for a Latin
\* word, cyrillic_to_latin(w) for a Cyrillic word.
C1_VariantsContainOtherScript ==
    VariantsReturned =>
        /\ IsLatinWord(text)
               => latin_to_cyrillic(text).val \in ret.val
        /\ IsCyrillicWord(text) => cyrillic_to_latin(text).val \in ret.val

\* C2: get_all_script_variants(w) contains w itself, for every word w
\* (the empty word included).
C2_VariantsContainInput == VariantsReturned => text \in ret.val

\* a Cyrillic word none of whose derived variants is the word itself
C2_Witness ==
    /\ VariantsReturned
    /\ has_cyrillic(text)
    /\ text \notin generate_variants(cyrillic_to_latin(text).val)
    /\ text \in ret.val

\* the empty word is returned as its own variant
C2_WitnessEmpty == VariantsReturned /\ text = <<>> /\ ret.val = {<<>>}

ScanPending == pc = "scan" /\ i < Len(text)

KeyAt(n) ==
    /\ i + n <= Len(text)
    /\ LowerStr(SubSeq(text, i + 1, i + n)) \in DOMAIN Table(fn)

ValueAt(n) == Table(fn)[LowerStr(SubSeq(text, i + 1, i + n))]

\* C9: at every scan position of both functions the 3-character slice is
\* tried first, then the 2-character slice, then the single character: when
\* the 3 (2) characters at the position form a key, that key's value is
\* appended as one piece and the scan advances by 3 (2), also when the token
\* ends the word.
C9_LongestMatchFirst ==
    [][ScanPending =>
          /\ KeyAt(3) => result' = result \o ValueAt(3) /\ i' = i + 3
          /\ ~KeyAt(3) /\ KeyAt(2) => result' = result \o ValueAt(2) /\ i' = i + 2
          /\ ~KeyAt(3) /\ ~KeyAt(2) => i' = i + 1]_vars

\* a trigraph that ends the word has been consumed as one token
C9_Witness ==
    /\ pc = "scan" /\ branch = "trigraph" /\ i = Len(text)
    /\ Len(result) >= 2

CapFirst(s) == IF s = <<>> THEN s ELSE <<Upper(s[1])>> \o Tail(s)

TokenLen == IF KeyAt(3) THEN 3 ELSE IF KeyAt(2) THEN 2 ELSE IF KeyAt(1) THEN 1 ELSE 0

\* C10: for every matched token (1, 2 or 3 input characters) whose first
\* input character is upper-case, the appended output is the table value
\* with its first character upper-cased and the rest cased as in the table.
C10_TokenCasePreserved ==
    [][ScanPending /\ TokenLen > 0 /\ IsUpper(text[i + 1])
          => result' = result \o CapFirst(ValueAt(TokenLen))]_vars
\* ------------------------------------------------------------------------
\* Properties of search_dictionary
\* ------------------------------------------------------------------------

Transliterating == fn = "search_dictionary" /\ args.use_transliteration

\* the variant set of each query that is searched
VariantsOf == [q \in SearchQueries |-> get_all_script_variants(q)]

Returned == fn = "search_dictionary" /\ pc = "done"

\* the response to the n-th sub-query
ResponseNo(n) == backend[queried[n]]

\* the hit with this id in a hit list that has one
HitOf(hits, id) == hits[CHOOSE k \in 1..Len(hits) : hits[k].id = id]

\* the first sub-query whose response holds a hit with this id
FirstReturning(id) ==
    CHOOSE n \in 1..Len(queried) :
        /\ id \in HitIds(ResponseNo(n).hits)
        /\ \A j \in 1..(n - 1) : id \notin HitIds(ResponseNo(j).hits)

\* C3: in transliteration mode the merged list holds one hit per id returned
\* by a sub-query, and that hit is the one of the earliest variant that
\* returned the id, all its fields (the score included) unchanged.
C3_FirstSeenWins ==
    Transliterating /\ pc = "variants" =>
        LET hits == merged_results.hits
        IN  /\ \A j, k \in 1..Len(hits) : j # k => hits[j].id # hits[k].id
            /\ HitIds(hits) = UNION {HitIds(ResponseNo(n).hits) : n \in 1..Len(queried)}
            /\ \A k \in 1..Len(hits) :
                   hits[k] = HitOf(ResponseNo(FirstReturning(hits[k].id)).hits, hits[k].id)

\* the second variant returned an id again, with a higher score than the
\* hit that was merged for it from the first variant
C3_Witness ==
    /\ Transliterating /\ pc = "variants" /\ Len(queried) = 2
    /\ \E k \in 1..Len(merged_results.hits) :
         \E j \in 1..Len(variant_result.hits) :
            /\ variant_result.hits[j].id = merged_results.hits[k].id
            /\ ScoreKey(variant_result.hits[j]) > ScoreKey(merged_results.hits[k])

\* the orders in which a set can be enumerated
Orders(S) ==
    {s \in [1..Cardinality(S) -> S] : \A j, k \in 1..Cardinality(S) : j # k => s[j] # s[k]}

\* C4: the result of search_dictionary does not depend on the order in which
\* the variants are iterated: with the backend's responses fixed, every order
\* gives the hit list that was returned, fields and scores included.
C4_OrderIndependent ==
    Returned /\ Transliterating =>
        \A order \in Orders(VariantsOf[args.query]) :
            search_dictionary(args, order, backend).hits = merged_results.hits

Descending(hits) ==
    \A j, k \in 1..Len(hits) : j < k => ScoreKey(hits[j]) >= ScoreKey(hits[k])

FromSource(hits, src) == {k \in 1..Len(hits) : hits[k].source = src}

\* the hit list that the filter step is applied to, before context shaping
PreFilterHits ==
    IF args.use_transliteration
    THEN SortByScore(MergeLoop(queried, backend, EmptyMerged(args.query), {}).hits)
    ELSE backend[args.query].hits

\* C5: without a source filter and with limit >= 1, limit_per_source >= 1,
\* the returned list has at most `limit` hits and at most `limit_per_source`
\* hits of any one source, and it is in descending score order when the list
\* that was capped is.
C5_CapBounds ==
    Returned /\ ~SourceGiven(args.source) /\ args.limit >= 1
             /\ args.limit_per_source >= 1 =>
        LET hits == merged_results.hits
        IN  /\ Len(hits) <= args.limit
            /\ \A k \in 1..Len(hits) :
                   Cardinality(FromSource(hits, hits[k].source)) <= args.limit_per_source
            /\ Descending(PreFilterHits) => Descending(hits)

\* three hits were merged, two of one source; with a cap of one hit per
\* source and a limit of two, one hit of each source is returned
C5_Witness ==
    /\ Returned /\ ~SourceGiven(args.source)
    /\ Len(PreFilterHits) = 3
    /\ args.limit_per_source = 1 /\ args.limit = 2
    /\ Len(merged_results.hits) = 2
    /\ merged_results.hits[1].source # merged_results.hits[2].source
    /\ ScoreKey(merged_results.hits[1]) > ScoreKey(merged_results.hits[2])

\* the label, lower-cased and NFKC-normalised, has the filter, treated
\* likewise, as a substring
LabelHasFilter(label, filter) ==
    LET l == Normalize(label)
        f == Normalize(filter)
    IN  \E a \in 0..Len(l) :
           /\ a + Len(f) <= Len(l)
           /\ \A j \in 1..Len(f) : l[a + j] = f[j]

\* the first n hits of a list whose source label has the filter
FirstMatching(hits, filter, n) ==
    LET M == {k \in 1..Len(hits) : LabelHasFilter(hits[k].source, filter)}
        nth(j) == CHOOSE k \in M : Cardinality({q \in M : q <= k}) = j
    IN  [j \in 1..Min(n, Cardinality(M)) |-> hits[nth(j)]]

\* C6: with a non-empty source filter the hits returned are the first
\* `limit` hits, in list order, whose lower-cased, NFKC-normalised source
\* label contains the filter normalised the same way; no per-source cap.
C6_SourceFilter ==
    Returned /\ SourceGiven(args.source) =>
        merged_results.hits =
            process_search_results(
                FirstMatching(PreFilterHits, args.source, args.limit),
                args.context_size)

\* filter "abc": two hits of the source "My-ABC" are returned although the
\* cap per source is one, and a hit of another source was filtered out
C6_Witness ==
    /\ Returned /\ args.source = <<"a", "b", "c">>
    /\ args.limit_per_source = 1
    /\ Len(PreFilterHits) = 3
    /\ Len(merged_results.hits) = 2
    /\ \A k \in 1..2 : merged_results.hits[k].source = SourceA

\* the position of a hit in a list of hits with different ids
PositionIn(hits, id) == CHOOSE k \in 1..Len(hits) : hits[k].id = id

\* the hits merged from the responses, in their order of insertion
MergedInOrder == MergeLoop(queried, backend, EmptyMerged(args.query), {}).hits

\* C7: in transliteration mode the merged list is sorted by score (0.0 when
\* the score is absent) in descending order before it is filtered, and hits
\* of equal score keep their order of insertion.
C7_StableSortDescending ==
    Transliterating /\ pc = "filter" =>
        LET hits == merged_results.hits
            merged == MergedInOrder
        IN  /\ Len(hits) = Len(merged)
            /\ SeqToSet(hits) = SeqToSet(merged)
            /\ \A j, k \in 1..Len(hits) : j < k =>
                   /\ ScoreKey(hits[j]) >= ScoreKey(hits[k])
                   /\ ScoreKey(hits[j]) = ScoreKey(hits[k]) =>
                          PositionIn(merged, hits[j].id) < PositionIn(merged, hits[k].id)

\* the sort moved a scored hit in front of two hits without a score, which
\* kept their order
C7_Witness ==
    /\ Transliterating /\ pc = "filter"
    /\ Len(merged_results.hits) = 3
    /\ MergedInOrder[3] = merged_results.hits[1]
    /\ MergedInOrder[1] = merged_results.hits[2]
    /\ MergedInOrder[2] = merged_results.hits[3]
    /\ MergedInOrder[1].rankingScore = NoScore
    /\ MergedInOrder[2].rankingScore = NoScore

RECURSIVE SumOver(_, _)
SumOver(f, S) ==
    IF S = {} THEN 0
    ELSE LET x == CHOOSE y \in S : TRUE IN f[x] + SumOver(f, S \ {x})

\* C8: in transliteration mode, after all sub-queries, estimatedTotalHits is
\* the maximum of the sub-queries' estimates (not their sum),
\* processingTimeMs the sum of their processing times, and the query field
\* the original query.
C8_MaxEstimateSumTime ==
    Transliterating /\ pc \in {"filter", "shape", "done"} =>
        LET V == VariantsOf[args.query]
        IN  /\ \E v \in V :
                  merged_results.estimatedTotalHits = backend[v].estimatedTotalHits
            /\ \A v \in V :
                  merged_results.estimatedTotalHits >= backend[v].estimatedTotalHits
            /\ merged_results.processingTimeMs =
                   SumOver([v \in V |-> backend[v].processingTimeMs], V)
            /\ merged_results.query = args.query

\* two sub-queries with different positive estimates, the larger one first
C8_Witness ==
    /\ Returned /\ Transliterating /\ Len(queried) = 2
    /\ ResponseNo(1).estimatedTotalHits > ResponseNo(2).estimatedTotalHits
    /\ ResponseNo(2).estimatedTotalHits > 0
    /\ merged_results.estimatedTotalHits = ResponseNo(1).estimatedTotalHits
    /\ merged_results.query # queried[1]

\* ------------------------------------------------------------------------
\* Further properties of the transliteration functions
\* ------------------------------------------------------------------------

TranslitReturned == pc = "done" /\ fn \in {"latin_to_cyrillic", "cyrillic_to_latin"}

\* C11: latin_to_cyrillic and cyrillic_to_latin return a single string for
\* every input word: the empty word, words with unmapped characters, words
\* already in the target script and the keys of the special-case lexicon in
\* either script.
C11_ReturnsSingleString == TranslitReturned => ~ret.list

\* the lower-cased character is a single-character key of a mapping table
InMappingTable(c) ==
    <<Lower(c)>> \in DOMAIN LATIN_TO_CYRILLIC \cup DOMAIN CYRILLIC_TO_LATIN

\* the lower-cased character is a key of COMMON_VARIANTS
HasCandidates(c) == <<Lower(c)>> \in DOMAIN COMMON_VARIANTS

\* C12 as stated: a word none of whose characters is a key of either mapping
\* table (characters that occur only inside multi-character keys or only in
\* COMMON_VARIANTS included) has itself as its only variant.
C12_NoTableCharAlone ==
    VariantsReturned /\ (\A k \in 1..Len(text) : ~InMappingTable(text[k]))
        => ret.val = {text}

\* C12 (amended): a word none of whose characters is a single-character key
\* of either mapping table or a key of COMMON_VARIANTS has itself as its
\* only variant.
C12_UnmappedWordAlone ==
    VariantsReturned
    /\ (\A k \in 1..Len(text) : ~InMappingTable(text[k]) /\ ~HasCandidates(text[k]))
        => ret.val = {text}

\* a word of a digit and an apostrophe, which occurs only inside
\* multi-character keys
C12_Witness ==
    /\ VariantsReturned
    /\ Len(text) >= 2
    /\ SeqToSet(text) = {"1", "'"}
    /\ ret.val = {text}

\* the Latin keys of the lexicon: those with a single Cyrillic value
LatinKeys == {k \in DOMAIN SPECIAL_CASE_MAPPING : ~SPECIAL_CASE_MAPPING[k].list}

\* the Cyrillic key of the lexicon: the one with a list of Latin values
CyrillicKeys == {k \in DOMAIN SPECIAL_CASE_MAPPING : SPECIAL_CASE_MAPPING[k].list}

\* the first Latin spelling listed for the Cyrillic key
TAERQUS_LAT == <<"t", "ae", "r", "q", "u_mac", "s">>

\* C13 as stated: the round trip is exact for every key of the lexicon:
\* cyrillic_to_latin(latin_to_cyrillic(k)) = k for each Latin key k and
\* latin_to_cyrillic(cyrillic_to_latin(c)) = c for the Cyrillic key c.
C13_RoundTripExact ==
    TranslitReturned =>
        /\ fn = "latin_to_cyrillic" /\ text \in LatinKeys
               => cyrillic_to_latin(ret.val) = Str(text)
        /\ fn = "cyrillic_to_latin" /\ text \in CyrillicKeys
               => latin_to_cyrillic(ret.val) = Str(text)

\* C13 (amended): every Latin key k goes to the Cyrillic key and comes back
\* as the first spelling listed for it, so the round trip is exact for that
\* spelling only; the round trip of the Cyrillic key is exact.
C13_RoundTripFirstSpelling ==
    TranslitReturned =>
        /\ fn = "latin_to_cyrillic" /\ text \in LatinKeys
               => /\ ret.val \in CyrillicKeys
                  /\ cyrillic_to_latin(ret.val) = Str(TAERQUS_LAT)
        /\ fn = "cyrillic_to_latin" /\ text \in CyrillicKeys
               => /\ ret = Str(TAERQUS_LAT)
                  /\ latin_to_cyrillic(ret.val) = Str(text)

\* a Latin key other than the first spelling was transliterated: it does
\* not come back as itself
C13_Witness ==
    /\ TranslitReturned /\ fn = "latin_to_cyrillic"
    /\ text \in LatinKeys \ {TAERQUS_LAT}
    /\ cyrillic_to_latin(ret.val).val # text

\* the values the lexicon lists for a word that is one of its keys
LexiconValues(w) ==
    LET entry == SPECIAL_CASE_MAPPING[LowerStr(w)]
    IN  IF entry.list THEN SeqToSet(entry.val) ELSE {entry.val}

\* the first value the lexicon lists for a word that is one of its keys
LexiconFirst(w) ==
    LET entry == SPECIAL_CASE_MAPPING[LowerStr(w)]
    IN  IF entry.list THEN entry.val[1] ELSE entry.val

\* C14: for a word whose lower-cased form is a key of the lexicon, both
\* transliteration functions return the lexicon value (the first entry of a
\* list) without a scan, and get_all_script_variants contains every value
\* the lexicon lists for the word.
C14_LexiconTakesPrecedence ==
    pc = "done" /\ fn \in Functions /\ InLexicon(text) =>
        /\ fn \in {"latin_to_cyrillic", "cyrillic_to_latin"}
               => branch = "special" /\ ret = Str(LexiconFirst(text))
        /\ fn = "get_all_script_variants" => LexiconValues(text) \subseteq ret.val

\* the (position, candidate) pairs of a word: the positions whose lower-cased
\* character is a key of COMMON_VARIANTS, each with every candidate of the key
SubstitutionPairs(w) ==
    {p \in (1..Len(w)) \X UNION {SeqToSet(COMMON_VARIANTS[key]) : key \in DOMAIN COMMON_VARIANTS} :
        /\ HasCandidates(w[p[1]])
        /\ p[2] \in SeqToSet(COMMON_VARIANTS[<<Lower(w[p[1]])>>])}

\* v is w with the k-th character replaced by cand, all others kept
ReplacedAt(w, v, k, cand) ==
    /\ Len(v) = Len(w) - 1 + Len(cand)
    /\ SubSeq(v, 1, k - 1) = SubSeq(w, 1, k - 1)
    /\ SubSeq(v, k, k + Len(cand) - 1) = cand
    /\ SubSeq(v, k + Len(cand), Len(v)) = SubSeq(w, k + 1, Len(w))

\* C15: generate_variants(w) contains w; every other element is w with the
\* character at exactly one position replaced by one candidate of that
\* character's COMMON_VARIANTS entry; every (position, candidate) pair has
\* its own output, so the result has one element per pair besides w.
C15_SingleSubstitutions ==
    pc = "done" /\ fn = "generate_variants" =>
        /\ text \in ret.val
        /\ \A v \in ret.val \ {text} :
               \E p \in SubstitutionPairs(text) : ReplacedAt(text, v, p[1], p[2])
        /\ \A p \in SubstitutionPairs(text) :
               \E v \in ret.val \ {text} : ReplacedAt(text, v, p[1], p[2])
        /\ Cardinality(ret.val) = 1 + Cardinality(SubstitutionPairs(text))

\* a word with two positions that have candidates: four outputs besides the
\* word, none with both positions changed
C15_Witness ==
    /\ pc = "done" /\ fn = "generate_variants"
    /\ text = <<"ae", "k", "s_long">>
    /\ Cardinality(ret.val) = 5
    /\ <<"a", "k", "w">> \notin ret.val
    /\ <<"ae", "k", "w">> \in ret.val

\* ------------------------------------------------------------------------
\* Further properties of search_dictionary
\* ------------------------------------------------------------------------

\* the searches made so far are all for different strings
NoRepeatedSearch ==
    \A j, k \in 1..Len(queried) : j # k => queried[j] # queried[k]

\* every backend search of the request has been made
SearchesMade == fn = "search_dictionary" /\ pc \in {"filter", "shape", "done"}

\* C16: with use_transliteration true there is exactly one backend search
\* for each element of get_all_script_variants(query), the query itself
\* among them: during the loop the variants searched and the variants still
\* to search partition the variant set, and no string is searched twice;
\* with use_transliteration false there is exactly one search, for the
\* query as it was given.
C16_OneSearchPerVariant ==
    fn = "search_dictionary" =>
        /\ NoRepeatedSearch
        /\ DOMAIN backend \subseteq SeqToSet(queried)
        /\ exception = NoException => DOMAIN backend = SeqToSet(queried)
        /\ Transliterating /\ pc = "variants" =>
               /\ pending \cap SeqToSet(queried) = {}
               /\ pending \cup SeqToSet(queried) = VariantsOf[args.query]
        /\ Transliterating /\ SearchesMade =>
               /\ SeqToSet(queried) = VariantsOf[args.query]
               /\ args.query \in SeqToSet(queried)
        /\ ~Transliterating /\ SearchesMade => queried = <<args.query>>
        /\ pc \in {"start", "dispatch"} => queried = <<>>

\* two variants were searched, the query itself as the second one
C16_Witness ==
    /\ Returned /\ Transliterating
    /\ Len(queried) = 2
    /\ queried[2] = args.query
    /\ queried[1] # args.query

\* the hits search_dictionary gives in transliteration mode when the variant
\* set is {query} and the backend's response is the one that was received
ViaVariantPath ==
    search_dictionary([args EXCEPT !.use_transliteration = TRUE],
                      <<args.query>>, backend).hits

StandardReturned == Returned /\ ~args.use_transliteration

OptionsBuilt == fn = "search_dictionary" /\ pc # "start"

\* C18: every backend search of a request is made with showRankingScore
\* true, a raw-hit limit of 100 when a source filter is given and of
\* min(100, 2 * limit) otherwise, and the attributes term, definition,
\* source, id, with expanded_context added only for context_size 'expanded'
\* and full_context only for 'full'; the options do not change between the
\* searches of one request.
C18_SearchOptions ==
    /\ [](OptionsBuilt =>
            /\ search_params.showRankingScore = TRUE
            /\ search_params.limit =
                   IF SourceGiven(args.source) THEN 100
                   ELSE IF 2 * args.limit <= 100 THEN 2 * args.limit ELSE 100
            /\ search_params.limit <= 100
            /\ SeqToSet(search_params.attributesToRetrieve) =
                   {"term", "definition", "source", "id"}
                   \cup (IF args.context_size = "expanded" THEN {"expanded_context"}
                         ELSE IF args.context_size = "full" THEN {"full_context"}
                         ELSE {}))
    /\ [][OptionsBuilt => search_params' = search_params /\ args' = args]_vars

\* two searches were made for a request without a source filter whose limit,
\* doubled, exceeds 100
C18_Witness ==
    /\ Transliterating /\ Len(queried) = 2
    /\ ~SourceGiven(args.source)
    /\ 2 * args.limit > 100
    /\ search_params.limit = 100

\* the hits received from the backend during the request
ReceivedHits == UNION {SeqToSet(backend[q].hits) : q \in DOMAIN backend}

\* C19: with context_size 'default' no hit of the final result has an
\* expanded_context or a full_context field, whether or not the backend
\* returned them, and every returned hit is a hit received from the backend
\* with its id, term, definition, source and score unchanged.
C19_DefaultStripsContext ==
    Returned /\ args.context_size = "default" =>
        \A k \in 1..Len(merged_results.hits) :
            LET hit == merged_results.hits[k]
            IN  /\ hit.expanded_context = NoText
                /\ hit.full_context = NoText
                /\ \E h \in ReceivedHits :
                       hit = [h EXCEPT !.expanded_context = NoText,
                                       !.full_context = NoText]

\* a hit that the backend returned with both context fields is in the result
C19_Witness ==
    /\ Returned /\ args.context_size = "default"
    /\ \E k \in 1..Len(merged_results.hits) :
         \E h \in ReceivedHits :
            /\ h.id = merged_results.hits[k].id
            /\ h.expanded_context # NoText
            /\ h.full_context # NoText

\* the context field of a received hit that the requested size reads:
\* expanded_context for 'expanded', full_context for 'full'
SuppliedContext(h) ==
    IF args.context_size = "expanded" THEN h.expanded_context ELSE h.full_context

\* a string with at least one character (not a missing field, not None)
NonEmptyText(s) == s # NoText /\ s # NoneText /\ s # <<>>

\* C20: with context_size 'expanded' or 'full' every hit of the final result
\* has a non-empty expanded_context, the one the backend supplied or else
\* the definition followed by a note; the only exception is a hit with an
\* empty definition and no supplied context, which is returned without a
\* context value (the field holds None).
C20_ContextPresent ==
    Returned /\ args.context_size \in {"expanded", "full"} =>
        \A k \in 1..Len(merged_results.hits) :
            LET hit == merged_results.hits[k]
            IN  \A h \in ReceivedHits : h.id = hit.id =>
                    IF SuppliedContext(h) # NoText
                    THEN NonEmptyText(hit.expanded_context)
                         /\ hit.expanded_context = SuppliedContext(h)
                    ELSE IF hit.definition # <<>>
                    THEN /\ NonEmptyText(hit.expanded_context)
                         /\ Len(hit.expanded_context) > Len(hit.definition)
                         /\ SubSeq(hit.expanded_context, 1, Len(hit.definition))
                                = hit.definition
                    ELSE hit.expanded_context = NoneText

\* the result of an 'expanded' request holds the hit with an empty
\* definition and no context, and a hit whose context was synthesized
C20_Witness ==
    /\ Returned /\ args.context_size = "expanded"
    /\ Len(merged_results.hits) = 2
    /\ \E k \in 1..2 :
          /\ merged_results.hits[k].definition = <<>>
          /\ merged_results.hits[k].expanded_context = NoneText
    /\ \E k \in 1..2 :
          /\ merged_results.hits[k].definition # <<>>
          /\ merged_results.hits[k].expanded_context
                 = merged_results.hits[k].definition \o <<ExpandedNote>>

\* the result of a 'full' request
FullReturned == Returned /\ args.context_size = "full"

\* C21 as stated: with context_size 'full' a hit that came with a
\* full_context ends with expanded_context equal to it and without a
\* full_context field; every other hit ends with the definition followed by
\* the full-context note, which differs from what 'expanded' synthesizes.
C21_FullShaping ==
    FullReturned =>
        \A k \in 1..Len(merged_results.hits) :
            LET hit == merged_results.hits[k]
            IN  \A h \in ReceivedHits : h.id = hit.id =>
                    IF h.full_context # NoText
                    THEN /\ hit.expanded_context = h.full_context
                         /\ hit.full_context = NoText
                    ELSE /\ hit.expanded_context = hit.definition \o <<FullNote>>
                         /\ hit.expanded_context #
                                generate_expanded_context(hit.definition, "expanded")

\* C21: with context_size 'full' a hit that came with a full_context ends
\* with expanded_context equal to it and without a full_context field; a hit
\* without one and with a non-empty definition ends with the definition
\* followed by the full-context note, which differs from what 'expanded'
\* synthesizes for that definition; with an empty definition it ends with
\* no context value.
C21_FullShapingNonEmptyDefinition ==
    FullReturned =>
        \A k \in 1..Len(merged_results.hits) :
            LET hit == merged_results.hits[k]
            IN  \A h \in ReceivedHits : h.id = hit.id =>
                    IF h.full_context # NoText
                    THEN /\ hit.expanded_context = h.full_context
                         /\ hit.full_context = NoText
                    ELSE IF hit.definition # <<>>
                    THEN /\ hit.expanded_context = hit.definition \o <<FullNote>>
                         /\ hit.expanded_context #
                                generate_expanded_context(hit.definition, "expanded")
                         /\ hit.full_context = NoText
                    ELSE hit.expanded_context = NoneText

\* a 'full' result with a renamed backend context and a synthesized one
C21_Witness ==
    /\ FullReturned
    /\ \E k \in 1..Len(merged_results.hits) :
          /\ merged_results.hits[k].id = "d1"
          /\ merged_results.hits[k].expanded_context = Documents["d1"].full_context
    /\ \E k \in 1..Len(merged_results.hits) :
          /\ merged_results.hits[k].id = "d3"
          /\ merged_results.hits[k].expanded_context
                 = Documents["d3"].definition \o <<FullNote>>

\* ------------------------------------------------------------------------
\* Failures of the backend
\* ------------------------------------------------------------------------

\* a query was sent in this step and the backend gave no response to it
SearchFailed == queried' # queried /\ backend' = backend

\* C22: when the backend search for a variant (or for the query) raises,
\* search_dictionary raises to its caller in that very step; from then on no
\* further search is made, for no variant and not for the failed one again,
\* the call never returns a result, and no string is searched twice.
C22_FailurePropagates ==
    /\ [][SearchFailed => exception' = "RuntimeError" /\ pc' = "raised"]_vars
    /\ [][exception # NoException =>
              queried' = queried /\ backend' = backend /\ exception' = exception]_vars
    /\ [](exception # NoException => ~Returned /\ pc = "raised")
    /\ [](fn = "search_dictionary" => NoRepeatedSearch)

\* the second of two variant searches failed after the first had given a hit
C22_Witness ==
    /\ fn = "search_dictionary" /\ pc = "raised" /\ exception = "RuntimeError"
    /\ Len(queried) = 2
    /\ DOMAIN backend = {queried[1]}
    /\ merged_results.hits # <<>>
    /\ pending = {}

\* ------------------------------------------------------------------------
\* Properties of the endpoints
\* ------------------------------------------------------------------------

\* search_dictionary was called for the request
SearchInvoked == request # NoRequest /\ args # NoArgs

\* the engine cannot be reached, does not report 'available', or has no index
EngineDown ==
    ~health.reachable \/ health.status # "available" \/ ~health.index_exists

\* health_check has returned for the request
HealthChecked == request # NoRequest /\ healthy # "not called"

\* C23: in each of the three endpoints search_dictionary is called only
\* after health_check returned True for the request; when the engine cannot
\* be reached, reports another status than 'available' or lacks the index,
\* health_check returns False, the response is 503 and no search is ever
\* made, neither for the query of the request nor as a test.
C23_HealthCheckFirst ==
    /\ [](SearchInvoked => healthy = "True")
    /\ [](request # NoRequest /\ healthy # "True" => queried = <<>>)
    /\ [](HealthChecked /\ EngineDown =>
              /\ healthy = "False"
              /\ response = ErrorResponse(503)
              /\ pc = "responded"
              /\ queried = <<>> /\ ~probed
              /\ ~SearchInvoked)
    /\ [][HealthChecked /\ EngineDown => UNCHANGED vars]_vars

\* a request to an engine without the index was answered with 503
C23_Witness ==
    /\ HealthChecked
    /\ health.reachable /\ health.status = "available" /\ ~health.index_exists
    /\ response.status = 503
    /\ InputError(request) = 0

\* an empty query, a limit outside 1..50 or an unknown context_size
InvalidInput(req) ==
    \/ req.query = <<>>
    \/ req.limit < ApiMinLimit \/ req.limit > ApiMaxLimit
    \/ req.context_size \notin ContextSizes

\* C24: each endpoint rejects an empty query, a limit outside 1..50 and a
\* context_size outside {default, expanded, full}: search_dictionary is
\* never called for such a request, and the response is a client error
\* (or 503 when health_check returned False).
C24_InvalidInputRejected ==
    request # NoRequest /\ InvalidInput(request) =>
        /\ ~SearchInvoked
        /\ pc = "responded" =>
               \/ response.status \in {400, 422}
               \/ response.status = 503 /\ healthy = "False"

\* the positions of the list before which fewer than limit_per_source hits
\* of the same source stand
UnderCap(hits) ==
    {k \in 1..Len(hits) :
        Cardinality({j \in 1..(k - 1) : hits[j].source = hits[k].source})
            < args.limit_per_source}

\* the ids of the hits at the given positions, in the order of the list
RECURSIVE IdsAt(_, _, _)
IdsAt(hits, positions, k) ==
    IF k > Len(hits) THEN <<>>
    ELSE (IF k \in positions THEN <<hits[k].id>> ELSE <<>>)
         \o IdsAt(hits, positions, k + 1)

IdsOf(hits) == [k \in 1..Len(hits) |-> hits[k].id]

\* the sources of the hits of a list
SourcesOf(hits) == {hits[k].source : k \in 1..Len(hits)}

\* C25: without a source filter and with limit >= 1 the result is exactly
\* the first `limit` hits h of the list (sorted, or as the backend returned
\* it) before which fewer than limit_per_source hits of h's source stand, so
\* a skipped hit does not keep later hits of other sources out; the number
\* of hits is min(limit, sum over the sources of min(limit_per_source, n_s)).
C25_GreedyCap ==
    Returned /\ ~SourceGiven(args.source) /\ args.limit >= 1 =>
        LET pre == PreFilterHits
            eligible == IdsAt(pre, UnderCap(pre), 1)
            S == SourcesOf(pre)
        IN  /\ IdsOf(merged_results.hits)
                   = SubSeq(eligible, 1, Min(args.limit, Len(eligible)))
            /\ Len(merged_results.hits) =
                   Min(args.limit,
                       SumOver([s \in S |->
                                   Min(args.limit_per_source,
                                       Cardinality(FromSource(pre, s)))], S))

\* with a cap of one hit per source the second hit of the list was skipped
\* and the third, of another source, was returned after the first
C25_Witness ==
    /\ Returned /\ ~SourceGiven(args.source)
    /\ args.limit = 2 /\ args.limit_per_source = 1
    /\ Len(PreFilterHits) = 3
    /\ PreFilterHits[1].source = PreFilterHits[2].source
    /\ PreFilterHits[3].source # PreFilterHits[1].source
    /\ IdsOf(merged_results.hits) = <<PreFilterHits[1].id, PreFilterHits[3].id>>

\* every response of the backend reports an estimate that is at least the
\* number of hits it holds
EstimatesCoverHits ==
    \A q \in DOMAIN backend : backend[q].estimatedTotalHits >= Len(backend[q].hits)

\* C26: in every result of search_dictionary estimatedTotalHits (exposed as
\* total_hits) is at least the number of hits returned, when every backend
\* response reports an estimate that is at least the number of its hits.
C26_TotalCoversHits ==
    Returned /\ EstimatesCoverHits =>
        merged_results.estimatedTotalHits >= Len(merged_results.hits)

\* C27: context shaping is idempotent for each context size: applying
\* process_search_results with the same context_size to the hits of a
\* returned (already shaped) result leaves every field of every hit as it
\* is, whether the context came from the backend or was synthesized.
C27_ShapingIdempotent ==
    Returned =>
        process_search_results(merged_results.hits, args.context_size)
            = merged_results.hits

\* a character that counts as a letter of the script the function converts
\* from: a key of CYRILLIC_TO_LATIN, or a character whose lower case is a key
\* of LATIN_TO_CYRILLIC; the letter ae, which both scripts share, excepted
SourceLetter(f, c) ==
    IF f = "cyrillic_to_latin"
    THEN <<c>> \in DOMAIN CYRILLIC_TO_LATIN /\ c # "ae"
    ELSE <<Lower(c)>> \in DOMAIN LATIN_TO_CYRILLIC /\ Lower(c) # "ae"

\* the strings a function returned: one, or the elements of a list
Outputs(r) == IF r.list THEN SeqToSet(r.val) ELSE {r.val}

NoSourceLetters(f, r) ==
    \A s \in Outputs(r) : \A k \in 1..Len(s) : ~SourceLetter(f, s[k])

\* a key of the lexicon written in the script the function converts to
LexiconKeyOfTarget(f, w) ==
    IF f = "cyrillic_to_latin" THEN LowerStr(w) \in LatinKeys
    ELSE LowerStr(w) \in CyrillicKeys

CyrillicMultiKeys == {k \in DOMAIN CYRILLIC_TO_LATIN : Len(k) > 1}

\* the keys of LATIN_TO_CYRILLIC of more than one character that are the
\* value of one of them
LatinImageKeys ==
    {k \in DOMAIN LATIN_TO_CYRILLIC :
        Len(k) > 1 /\ \E c \in CyrillicMultiKeys : CYRILLIC_TO_LATIN[c] = k}

\* C29: each of the 11 multi-character keys k of CYRILLIC_TO_LATIN comes back
\* from latin_to_cyrillic(cyrillic_to_latin(k)), each of the 9
\* multi-character keys k of LATIN_TO_CYRILLIC that is the value of one of
\* them comes back from cyrillic_to_latin(latin_to_cyrillic(k)), and each
\* word of the three test pairs is converted to the other word of its pair.
C29_MultiKeyRoundTrip ==
    /\ Cardinality(CyrillicMultiKeys) = 11
    /\ Cardinality(LatinImageKeys) = 9
    /\ TranslitReturned =>
          /\ fn = "cyrillic_to_latin" /\ text \in CyrillicMultiKeys
                 => ~ret.list /\ latin_to_cyrillic(ret.val) = Str(text)
          /\ fn = "latin_to_cyrillic" /\ text \in LatinImageKeys
                 => ~ret.list /\ cyrillic_to_latin(ret.val) = Str(text)
          /\ \A p \in TestPairs :
                 /\ fn = "latin_to_cyrillic" /\ text = p[1] => ret = Str(p[2])
                 /\ fn = "cyrillic_to_latin" /\ text = p[2] => ret = Str(p[1])

\* the three-character key of CYRILLIC_TO_LATIN with an apostrophe in its
\* value was converted and its value converts back to it
C29_Witness ==
    /\ TranslitReturned /\ fn = "cyrillic_to_latin"
    /\ text = <<"cy_k", "cy_hard", "cy_u">>
    /\ ret = Str(<<"k", "'", "s_long">>)
    /\ latin_to_cyrillic(ret.val) = Str(text)

====
